---- MODULE Spec2Model ----
(***************************************************************************)
(* Model of the eZunder file extractor (src/subscription/extractor.py):    *)
(* FileExtractor.extract_all and its helpers, driven either by main() or   *)
(* by a direct call of the extraction API, against a small filesystem.     *)
(*                                                                         *)
(* Text that the code concatenates or splits (names, suffixes, paths) is   *)
(* a sequence of tokens; "/" and "." are tokens of their own, so that      *)
(* f"{name}.{suffix}" and pathlib's "/" operator are computed, not assumed.*)
(***************************************************************************)
EXTENDS Integers, Sequences, FiniteSets, TLC

\* ------------------------------------------------------------------------
\* Bounds of the model
\* ------------------------------------------------------------------------
MaxFiles == 2        \* longest `files` list of an archive
MaxRuns == 2         \* invocations against the same output directory
MaxReadOnly == 1     \* number of destinations the filesystem refuses to open

\* ------------------------------------------------------------------------
\* Text and paths
\* ------------------------------------------------------------------------
Front(s) == SubSeq(s, 1, Len(s) - 1)

RECURSIVE SplitSlash(_)
\* str.split("/") on a token sequence: the components between slashes
SplitSlash(s) ==
    IF s = <<>> THEN << <<>> >>
    ELSE LET rest == SplitSlash(Tail(s))
         IN  IF Head(s) = "/" THEN << <<>> >> \o rest
             ELSE << <<Head(s)>> \o Head(rest) >> \o Tail(rest)

\* the components pathlib keeps: empty ones and "." are dropped
Parts(s) == SelectSeq(SplitSlash(s), LAMBDA c : c # <<>> /\ c # <<".">>)

IsAbs(s) == s # <<>> /\ Head(s) = "/"

\* Path(s)
PurePath(s) == [abs |-> IsAbs(s), parts |-> Parts(s)]

\* p / s : an absolute right operand replaces the left one
JoinPath(p, s) ==
    IF IsAbs(s) THEN PurePath(s)
    ELSE [abs |-> p.abs, parts |-> p.parts \o Parts(s)]

RECURSIVE JoinSlash(_)
JoinSlash(parts) ==
    IF parts = <<>> THEN <<>>
    ELSE IF Len(parts) = 1 THEN Head(parts)
    ELSE Head(parts) \o <<"/">> \o JoinSlash(Tail(parts))

\* str(p)
Str(p) ==
    IF p.abs THEN <<"/">> \o JoinSlash(p.parts)
    ELSE IF p.parts = <<>> THEN <<".">>
    ELSE JoinSlash(p.parts)

\* p.parent
Parent(p) == [abs |-> p.abs, parts |-> Front(p.parts)]

\* p and every ancestor of p below the anchor, as strings
Ancestors(p) ==
    { Str([abs |-> p.abs, parts |-> SubSeq(p.parts, 1, k)]) : k \in 1..Len(p.parts) }

\* f"{name}.{suffix}"
FileName(name, suffix) == name \o <<".">> \o suffix

\* output_directory = Path("ezunder_extracted")
output_directory == PurePath(<<"ezunder_extracted">>)

\* str.lower() on the project names of the model
Lower(s) == [k \in DOMAIN s |-> IF s[k] = "Proj" THEN "proj" ELSE s[k]]

\* ------------------------------------------------------------------------
\* Inputs: JSON values of the archive
\* ------------------------------------------------------------------------
\* One element of data['files'].  `type` is the JSON type of the element and
\* `has` the set of strings k for which Python's `k in file_obj` is true
\* (keys of an object, elements of an array).  The other fields are the
\* values under the keys and are read only for keys in `has`.
Ent(type, has, name, ctype, content, suffix, path) ==
    [type |-> type, has |-> has, name |-> name, ctype |-> ctype,
     content |-> content, suffix |-> suffix, path |-> path]

required_file_keys == {"name", "content", "suffix"}

EPlain == Ent("object", required_file_keys, <<"a">>, "string", <<"x">>, <<"txt">>, <<>>)
EEmptyPath == Ent("object", required_file_keys \cup {"path"}, <<"a">>, "string", <<"y">>, <<"txt">>, <<>>)
ESubDir == Ent("object", required_file_keys \cup {"path"}, <<"a">>, "string", <<"x">>, <<".", "txt">>, <<"sub", "/", "dir">>)
EAbsPath == Ent("object", required_file_keys \cup {"path"}, <<"a">>, "string", <<"x">>, <<"txt">>, <<"/", "abs">>)
EManifest == Ent("object", required_file_keys, <<"package">>, "string", <<"x">>, <<"json">>, <<>>)
ENumContent == Ent("object", required_file_keys, <<"a">>, "number", <<>>, <<"txt">>, <<>>)
EUnderFile == Ent("object", required_file_keys \cup {"path"}, <<"b">>, "string", <<"x">>, <<"txt">>, <<"a", ".", "txt">>)
ENoContent == Ent("object", {"name", "suffix"}, <<"a">>, "string", <<>>, <<"txt">>, <<>>)
EArray == Ent("array", required_file_keys, <<>>, "string", <<>>, <<>>, <<>>)
ENumber == Ent("number", {}, <<>>, "string", <<>>, <<>>, <<>>)

Entries ==
    {EPlain, EEmptyPath, ESubDir, EAbsPath, EManifest, ENumContent,
     EUnderFile, ENoContent, EArray, ENumber}

FileLists == UNION { [1..n -> Entries] : n \in 0..MaxFiles }

\* The parsed document: `has` as for entries, ptype/ftype the JSON types of
\* data['project'] and data['files'].
Doc(type, has, ptype, ftype, files) ==
    [type |-> type, has |-> has, ptype |-> ptype, project |-> <<"Proj">>,
     ftype |-> ftype, files |-> files]

required_keys == {"project", "files"}

Archives ==
    { Doc("object", required_keys, "string", "array", fl) : fl \in FileLists }
    \cup { Doc("object", {"project"}, "string", "array", <<>>),
           Doc("object", {"files"}, "string", "array", <<EPlain>>),
           Doc("object", required_keys, "string", "object", <<>>),
           Doc("object", required_keys, "number", "array", <<EPlain>>),
           Doc("array", required_keys, "string", "array", <<>>),
           Doc("number", {}, "string", "array", <<>>) }

\* What is at json_file_path: nothing, text that is not JSON, or a document
Sources ==
    { [exists |-> TRUE, parses |-> TRUE, data |-> a] : a \in Archives }
    \cup { [exists |-> e, parses |-> FALSE, data |-> Doc("number", {}, "string", "array", <<>>)] :
             e \in BOOLEAN }

\* Destinations the filesystem may refuse to open for writing
Refusable ==
    { Str(JoinPath(output_directory, n)) :
        n \in { <<"a", ".", "txt">>, <<"package", ".", "json">>,
                <<".", "env", ".", "example">>, <<"README", ".", "md">> } }

ReadOnlySets == { S \in SUBSET Refusable : Cardinality(S) <= MaxReadOnly }

\* ------------------------------------------------------------------------
\* State
\* ------------------------------------------------------------------------
VARIABLES
    source,           \* what json_file_path holds (fixed during a behaviour)
    rootBlocked,      \* the output directory cannot be created
    readonly,         \* destinations that cannot be opened for writing
    fs,               \* the filesystem: files (path -> content) and dirs
    pc,               \* position of the process
    caller,           \* "main" or "api": who called extract_all
    run,              \* number of the current invocation
    constructed,      \* a FileExtractor exists
    extracted_files,  \* self.extracted_files
    errors,           \* self.errors
    i,                \* position of the entry loop in data['files']
    success_count,    \* success_count of extract_all
    result,           \* return value of extract_all
    exitStatus,       \* status given to sys.exit
    trace,            \* filesystem operations of this invocation, in order
    finished          \* outcome of the earlier invocations

vars == <<source, rootBlocked, readonly, fs, pc, caller, run, constructed,
          extracted_files, errors, i, success_count, result, exitStatus,
          trace, finished>>

env == <<source, rootBlocked, readonly>>

NoExit == -1

Err(msg, arg, exc) == [msg |-> msg, arg |-> arg, exc |-> exc]

Op(op, idx, out) == [op |-> op, idx |-> idx, out |-> out]

data == source.data

\* ------------------------------------------------------------------------
\* Filesystem primitives
\* ------------------------------------------------------------------------
\* Path.mkdir(parents=True, exist_ok=True): fails when p or one of its
\* ancestors is a file, otherwise every missing ancestor becomes a directory
MkdirFails(p, f) == \E a \in Ancestors(p) : a \in DOMAIN f.files

Mkdir(p, f) == [f EXCEPT !.dirs = @ \cup Ancestors(p)]

\* open(p, 'w'): fails on a directory, under a missing parent, or when the
\* filesystem refuses; otherwise the file exists and is empty
OpenFails(p, f, ro) ==
    \/ Str(p) \in f.dirs
    \/ Parent(p).parts # <<>> /\ Str(Parent(p)) \notin f.dirs
    \/ Str(p) \in ro

Truncate(p, f) == [f EXCEPT !.files = (Str(p) :> <<>>) @@ @]

\* a write that keeps what the file held (mode 'a' instead of 'w')
WriteFileAppend(p, content, f) ==
    [f EXCEPT !.files =
        (Str(p) :> (IF Str(p) \in DOMAIN @ THEN @[Str(p)] ELSE <<>>) \o content) @@ @]

\* f.write(content) on a file opened with 'w'
WriteFile(p, content, f) == [f EXCEPT !.files = (Str(p) :> content) @@ @]

\* ------------------------------------------------------------------------
\* validate_json_structure
\* ------------------------------------------------------------------------
\* `key in v` raises TypeError on a value that is no container
InRaises(v) == v.type \notin {"object", "array", "string"}

BadEntries(d) ==
    { k \in 1..Len(d.files) :
        InRaises(d.files[k]) \/ ~(required_file_keys \subseteq d.files[k].has) }

FirstBad(d) == CHOOSE k \in BadEntries(d) : \A j \in BadEntries(d) : k <= j

validate_json_structure(d, errs) ==
    IF InRaises(d)
    THEN [raised |-> TRUE, ok |-> FALSE, errors |-> errs]
    ELSE IF ~(required_keys \subseteq d.has)
    THEN [raised |-> FALSE, ok |-> FALSE,
          errors |-> Append(errs, Err("Missing required keys", <<>>, ""))]
    ELSE IF d.type # "object"
    THEN [raised |-> TRUE, ok |-> FALSE, errors |-> errs]
    ELSE IF d.ftype # "array"
    THEN [raised |-> FALSE, ok |-> FALSE,
          errors |-> Append(errs, Err("'files' must be a list", <<>>, ""))]
    ELSE IF BadEntries(d) = {}
    THEN [raised |-> FALSE, ok |-> TRUE, errors |-> errs]
    ELSE IF InRaises(d.files[FirstBad(d)])
    THEN [raised |-> TRUE, ok |-> FALSE, errors |-> errs]
    ELSE [raised |-> FALSE, ok |-> FALSE,
          errors |-> Append(errs, Err("File missing required keys",
                                      <<ToString(FirstBad(d) - 1)>>, ""))]

\* ------------------------------------------------------------------------
\* extract_file
\* ------------------------------------------------------------------------
\* file_obj.get('path', '')
PathOf(file_obj) == IF "path" \in file_obj.has THEN file_obj.path ELSE <<>>

\* the file path built at lines 59-64
file_path(file_obj) ==
    IF PathOf(file_obj) # <<>>
    THEN JoinPath(JoinPath(output_directory, PathOf(file_obj)),
                  FileName(file_obj.name, file_obj.suffix))
    ELSE JoinPath(output_directory, FileName(file_obj.name, file_obj.suffix))

\* a record kept newest first (insert(0, ...) instead of append)
RecordExtractedFirst(written, p) == <<Str(p)>> \o written

\* self.extracted_files.append(str(file_path))
RecordExtracted(written, p) == Append(written, Str(p))

Failed(file_obj, f, written, errs, exc) ==
    [raised |-> FALSE, ok |-> FALSE, fs |-> f, written |-> written,
     errors |-> Append(errs, Err("Failed to extract file", file_obj.name, exc))]

extract_file(file_obj, f, ro, written, errs) ==
    IF file_obj.type # "object"
    THEN \* file_obj['name'] raises TypeError, and the handler's
         \* file_obj.get raises AttributeError out of extract_file
         [raised |-> TRUE, ok |-> FALSE, fs |-> f, written |-> written, errors |-> errs]
    ELSE LET p == file_path(file_obj)
             sub == PathOf(file_obj) # <<>>
             f1 == IF sub THEN Mkdir(Parent(p), f) ELSE f
         IN  IF sub /\ MkdirFails(Parent(p), f)
             THEN Failed(file_obj, f, written, errs, "OSError")
             ELSE IF OpenFails(p, f1, ro)
             THEN Failed(file_obj, f1, written, errs, "OSError")
             ELSE IF file_obj.ctype # "string"
             THEN Failed(file_obj, Truncate(p, f1), written, errs, "TypeError")
             ELSE [raised |-> FALSE, ok |-> TRUE,
                   fs |-> WriteFile(p, file_obj.content, f1),
                   written |-> RecordExtracted(written, p), errors |-> errs]

\* ------------------------------------------------------------------------
\* Scaffold files
\* ------------------------------------------------------------------------
package_path == JoinPath(output_directory, <<"package", ".", "json">>)
env_path == JoinPath(output_directory, <<".", "env", ".", "example">>)
readme_path == JoinPath(output_directory, <<"README", ".", "md">>)

\* json.dump(package_json): the template with the lower-cased project name
package_json(d) == <<"manifest">> \o Lower(d.project)
env_content == <<"env_template">>

\* ------------------------------------------------------------------------
\* Initial state: nothing extracted yet, an empty filesystem
\* ------------------------------------------------------------------------
Init ==
    /\ source \in Sources
    /\ rootBlocked \in BOOLEAN
    /\ readonly \in ReadOnlySets
    /\ fs = [files |-> <<>>, dirs |-> {}]
    /\ pc = "start"
    /\ caller = "none"
    /\ run = 1
    /\ constructed = FALSE
    /\ extracted_files = <<>>
    /\ errors = <<>>
    /\ i = 0
    /\ success_count = 0
    /\ result = "None"
    /\ exitStatus = NoExit
    /\ trace = <<>>
    /\ finished = <<>>

\* FileExtractor.__init__
Construct ==
    /\ constructed' = TRUE
    /\ extracted_files' = <<>>
    /\ errors' = <<>>

\* `return v` from extract_all
Return(v) ==
    /\ pc' = "returned"
    /\ result' = v

\* a handler that returns False without logging
CatchAllSilent(errs, exc) ==
    /\ errors' = errs
    /\ Return("False")

\* the handler `except Exception` of extract_all
CatchAll(errs, exc) ==
    /\ errors' = Append(errs, Err("Unexpected error", <<>>, exc))
    /\ Return("False")

\* ------------------------------------------------------------------------
\* Actions
\* ------------------------------------------------------------------------
\* main(): the existence check, then the construction and the call
MainStart ==
    /\ pc = "start"
    /\ caller' = "main"
    /\ IF ~source.exists
       THEN /\ pc' = "exited"
            /\ exitStatus' = 1
            /\ UNCHANGED <<constructed, extracted_files, errors>>
       ELSE /\ pc' = "load"
            /\ Construct
            /\ UNCHANGED exitStatus
    /\ UNCHANGED <<env, fs, run, i, success_count, result, trace, finished>>

\* a caller that constructs a FileExtractor and calls extract_all directly
ApiStart ==
    /\ pc = "start"
    /\ caller' = "api"
    /\ pc' = "load"
    /\ Construct
    /\ UNCHANGED <<env, fs, run, i, success_count, result, exitStatus, trace, finished>>

\* extract_all: open and json.load
LoadJson ==
    /\ pc = "load"
    /\ IF ~source.exists
       THEN /\ errors' = Append(errors, Err("JSON file not found", <<>>, ""))
            /\ Return("False")
       ELSE IF ~source.parses
       THEN /\ errors' = Append(errors, Err("Invalid JSON format", <<>>, "JSONDecodeError"))
            /\ Return("False")
       ELSE /\ pc' = "validate"
            /\ UNCHANGED <<errors, result>>
    /\ UNCHANGED <<env, fs, caller, run, constructed, extracted_files, i,
                   success_count, exitStatus, trace, finished>>

\* extract_all: the call of validate_json_structure
Validate ==
    /\ pc = "validate"
    /\ LET v == validate_json_structure(data, errors)
       IN  IF v.raised THEN CatchAll(v.errors, "TypeError")
           ELSE IF ~v.ok THEN errors' = v.errors /\ Return("False")
           ELSE /\ pc' = "mkdir"
                /\ UNCHANGED <<errors, result>>
    /\ UNCHANGED <<env, fs, caller, run, constructed, extracted_files, i,
                   success_count, exitStatus, trace, finished>>

\* extract_all: create_directory_structure, then success_count = 0
CreateDirectoryStructure ==
    /\ pc = "mkdir"
    /\ IF rootBlocked \/ MkdirFails(output_directory, fs)
       THEN /\ CatchAll(Append(errors, Err("Failed to create directory", <<>>, "OSError")),
                        "OSError")
            /\ trace' = Append(trace, Op("mkdir", 0, "failed"))
            /\ UNCHANGED <<fs, i, success_count>>
       ELSE /\ fs' = Mkdir(output_directory, fs)
            /\ trace' = Append(trace, Op("mkdir", 0, "ok"))
            /\ i' = 1
            /\ success_count' = 0
            /\ pc' = IF Len(data.files) = 0 THEN "package" ELSE "extract"
            /\ UNCHANGED <<errors, result>>
    /\ UNCHANGED <<env, caller, run, constructed, extracted_files, exitStatus, finished>>

\* extract_all: one iteration of `for file_obj in data['files']`
ExtractFile ==
    /\ pc = "extract"
    /\ LET r == extract_file(data.files[i], fs, readonly, extracted_files, errors)
       IN  /\ trace' = Append(trace, Op("entry", i, IF r.raised THEN "raised"
                                                     ELSE IF r.ok THEN "ok" ELSE "failed"))
           /\ fs' = r.fs
           /\ extracted_files' = r.written
           /\ IF r.raised
              THEN /\ CatchAll(r.errors, "AttributeError")
                   /\ UNCHANGED <<i, success_count>>
              ELSE /\ errors' = r.errors
                   /\ success_count' = IF r.ok THEN success_count + 1 ELSE success_count
                   /\ i' = i + 1
                   /\ pc' = IF i = Len(data.files) THEN "package" ELSE "extract"
                   /\ UNCHANGED result
    /\ UNCHANGED <<env, caller, run, constructed, exitStatus, finished>>

\* extract_all: create_package_json(data)
CreatePackageJson ==
    /\ pc = "package"
    /\ IF data.ptype # "string"
       THEN \* .lower() raises outside the try of create_package_json
            /\ CatchAll(errors, "AttributeError")
            /\ trace' = Append(trace, Op("scaffold", 1, "raised"))
            /\ UNCHANGED fs
       ELSE /\ pc' = "env"
            /\ UNCHANGED result
            /\ IF OpenFails(package_path, fs, readonly)
               THEN /\ errors' = Append(errors, Err("Failed to create package.json", <<>>, "OSError"))
                    /\ trace' = Append(trace, Op("scaffold", 1, "failed"))
                    /\ UNCHANGED fs
               ELSE /\ fs' = WriteFile(package_path, package_json(data), fs)
                    /\ trace' = Append(trace, Op("scaffold", 1, "ok"))
                    /\ UNCHANGED errors
    /\ UNCHANGED <<env, caller, run, constructed, extracted_files, i,
                   success_count, exitStatus, finished>>

\* extract_all: create_env_template().  Its second try block opens README.md
\* and writes `readme_content`, a name that is bound nowhere: NameError.
CreateEnvTemplate ==
    /\ pc = "env"
    /\ LET envFails == OpenFails(env_path, fs, readonly)
           f1 == IF envFails THEN fs ELSE WriteFile(env_path, env_content, fs)
           e1 == IF envFails
                 THEN Append(errors, Err("Failed to create .env.example", <<>>, "OSError"))
                 ELSE errors
           readmeOpens == ~OpenFails(readme_path, f1, readonly)
       IN  /\ trace' = trace \o << Op("scaffold", 2, IF envFails THEN "failed" ELSE "ok"),
                                  Op("scaffold", 3, "failed") >>
           /\ fs' = IF readmeOpens THEN Truncate(readme_path, f1) ELSE f1
           /\ errors' = Append(e1, Err("Failed to create README.md", <<>>,
                                       IF readmeOpens THEN "NameError" ELSE "OSError"))
    /\ pc' = "readme"
    /\ UNCHANGED <<env, caller, run, constructed, extracted_files, i,
                   success_count, result, exitStatus, finished>>

\* extract_all: self.create_readme(data).  FileExtractor has no such method:
\* AttributeError, handled by `except Exception`.  The summary and the
\* `return True` that follow the call are never executed.
CallCreateReadme ==
    /\ pc = "readme"
    /\ CatchAll(errors, "AttributeError")
    /\ trace' = Append(trace, Op("create_readme", 0, "raised"))
    /\ UNCHANGED <<env, fs, caller, run, constructed, extracted_files, i,
                   success_count, exitStatus, finished>>

\* main(): sys.exit(0) or sys.exit(1) on the value of extract_all
MainExit ==
    /\ pc = "returned"
    /\ caller = "main"
    /\ pc' = "exited"
    /\ exitStatus' = IF result = "True" THEN 0 ELSE 1
    /\ UNCHANGED <<env, fs, caller, run, constructed, extracted_files, errors,
                   i, success_count, result, trace, finished>>

\* the invocation is over: the process exited, or extract_all returned to
\* the caller of the API
Completed == pc = "exited" \/ (pc = "returned" /\ caller = "api")

\* the same archive is extracted again into the same output directory, by a
\* new process: nothing but the filesystem survives
Rerun ==
    /\ Completed
    /\ run < MaxRuns
    /\ run' = run + 1
    /\ finished' = Append(finished, [fs |-> fs, written |-> extracted_files,
                                     errors |-> errors])
    /\ pc' = "start"
    /\ caller' = "none"
    /\ constructed' = FALSE
    /\ extracted_files' = <<>>
    /\ errors' = <<>>
    /\ i' = 0
    /\ success_count' = 0
    /\ result' = "None"
    /\ exitStatus' = NoExit
    /\ trace' = <<>>
    /\ UNCHANGED <<env, fs>>

Next ==
    \/ MainStart
    \/ ApiStart
    \/ LoadJson
    \/ Validate
    \/ CreateDirectoryStructure
    \/ ExtractFile
    \/ CreatePackageJson
    \/ CreateEnvTemplate
    \/ CallCreateReadme
    \/ MainExit
    \/ Rerun

Spec == Init /\ [][Next]_vars

TypeOK ==
    /\ pc \in {"start", "load", "validate", "mkdir", "extract", "package",
               "env", "readme", "returned", "exited"}
    /\ result \in {"None", "True", "False"}
    /\ exitStatus \in {NoExit, 0, 1}
    /\ run \in 1..MaxRuns

\* ------------------------------------------------------------------------
\* Vocabulary of the properties
\* ------------------------------------------------------------------------
Range(seq) == { seq[k] : k \in DOMAIN seq }

NumFiles == Len(data.files)

\* the document was read and parsed by this invocation
Loaded == constructed /\ source.exists /\ source.parses /\ pc \notin {"start", "load"}

\* the shape section 3 of the specification requires
WellFormedEntry(e) == e.type = "object" /\ required_file_keys \subseteq e.has

WellFormed(d) ==
    /\ d.type = "object"
    /\ required_keys \subseteq d.has
    /\ d.ftype = "array"
    /\ \A k \in 1..Len(d.files) : WellFormedEntry(d.files[k])

\* `project` is a string, as section 6 of the specification declares it
StringProject == data.ptype = "string"

\* validate_json_structure returned True in this invocation
Validated ==
    /\ Loaded
    /\ pc # "validate"
    /\ validate_json_structure(data, <<>>).ok

RootCreated == Op("mkdir", 0, "ok") \in Range(trace)

EntryOps == SelectSeq(trace, LAMBDA o : o.op = "entry")

EntryFailures == SelectSeq(errors, LAMBDA e : e.msg = "Failed to extract file")

ScaffoldStarted == \E o \in Range(trace) : o.op = "scaffold"

FsAtStart ==
    IF finished = <<>> THEN [files |-> <<>>, dirs |-> {}]
    ELSE finished[Len(finished)].fs

\* the file the operating system opens for a path string
Resolve(str) == Str(PurePath(str))

\* root/path/name.suffix, or root/name.suffix, written out as text
Destination(e) ==
    IF PathOf(e) # <<>>
    THEN Str(output_directory) \o <<"/">> \o e.path \o <<"/">> \o e.name \o <<".">> \o e.suffix
    ELSE Str(output_directory) \o <<"/">> \o e.name \o <<".">> \o e.suffix

\* ------------------------------------------------------------------------
\* Properties
\* ------------------------------------------------------------------------
\* C1: a well-formed archive of N entries, none of whose writes fails, ends
\* with N written paths and an empty error log.
C1_CleanRun ==
    ( /\ Completed
      /\ Loaded
      /\ WellFormed(data) /\ StringProject
      /\ RootCreated /\ readonly = {}
      /\ \A k \in 1..NumFiles : Op("entry", k, "ok") \in Range(trace) )
    => /\ Len(extracted_files) = NumFiles
       /\ errors = <<>>

\* C2: an archive that lacks `project` or `files`, whose `files` is no list,
\* or one of whose entries lacks `name`, `content` or `suffix`, ends with no
\* written path, a non-empty error log and an untouched filesystem.
C2_RejectedBeforeMutation ==
    (Completed /\ Loaded /\ ~WellFormed(data))
    => /\ extracted_files = <<>>
       /\ errors # <<>>
       /\ fs = FsAtStart

\* C3: once validation passed and the output root exists, every entry is
\* attempted whatever happened to the entries before it, and each entry that
\* was not written has one error message naming it.
C3_Isolation ==
    (Completed /\ Validated /\ RootCreated)
    => /\ \A k \in 1..NumFiles :
            \E o \in Range(trace) :
               /\ o.op = "entry" /\ o.idx = k
               /\ o.out # "ok" =>
                    \E e \in Range(EntryFailures) : e.arg = data.files[k].name
       /\ Len(EntryFailures) = Cardinality({ k \in DOMAIN EntryOps : EntryOps[k].out # "ok" })

\* C4: extract_all returns True exactly when the error log is empty, and the
\* process exits with status 0 exactly when the error log is empty.
C4_SuccessIffNoErrors ==
    (constructed /\ pc \in {"returned", "exited"})
    => /\ (result = "True") <=> (errors = <<>>)
       /\ pc = "exited" => ((exitStatus = 0) <=> (errors = <<>>))

C4_Witness ==
    /\ pc = "exited" /\ constructed
    /\ result = "False" /\ exitStatus = 1
    /\ errors # <<>> /\ extracted_files # <<>>

\* C5: whenever validation passes, the run leaves the three scaffold files
\* (package.json, .env.example, README.md) generated in the output root.
C5_ThreeScaffoldFiles ==
    (Completed /\ Validated /\ WellFormed(data) /\ StringProject /\ RootCreated /\ readonly = {})
    => /\ Str(package_path) \in DOMAIN fs.files
       /\ fs.files[Str(package_path)] = package_json(data)
       /\ Str(env_path) \in DOMAIN fs.files
       /\ fs.files[Str(env_path)] = env_content
       /\ Str(readme_path) \in DOMAIN fs.files
       /\ fs.files[Str(readme_path)] # <<>>

\* C6: a failure of one scaffold write is logged under that file's name, the
\* other scaffold steps still run, and the run ends through the normal
\* error-log check, not through the catch-all handler.
C6_ScaffoldIsolated ==
    (Completed /\ ScaffoldStarted /\ StringProject)
    => /\ \A k \in 1..3 : \E o \in Range(trace) :
              o.op = "scaffold" /\ o.idx = k /\ o.out \in {"ok", "failed"}
       /\ \A e \in Range(errors) : e.msg # "Unexpected error"

\* C7: entries are attempted in archive order, after the output root was
\* created and before any scaffold step; the written paths are those of the
\* entries that succeeded, in archive order.
C7_ArchiveOrder ==
    /\ \A k \in DOMAIN EntryOps : EntryOps[k].idx = k
    /\ \A a, b \in DOMAIN trace :
          /\ (trace[a].op = "entry" /\ trace[b].op = "mkdir") => (b < a /\ trace[b].out = "ok")
          /\ (trace[a].op = "scaffold" /\ trace[b].op = "entry") => b < a
    /\ ScaffoldStarted => Len(EntryOps) = NumFiles
    /\ LET okOps == SelectSeq(EntryOps, LAMBDA o : o.out = "ok")
       IN  extracted_files =
             [k \in DOMAIN okOps |-> Resolve(Str(file_path(data.files[okOps[k].idx])))]

C7_Witness ==
    /\ Completed /\ ScaffoldStarted
    /\ Len(EntryOps) = 2
    /\ EntryOps[1].out = "ok" /\ EntryOps[2].out = "ok"
    /\ extracted_files[1] # extracted_files[2]

C9_Destination ==
    (trace # <<>> /\ trace[Len(trace)].op = "entry" /\ trace[Len(trace)].out = "ok")
    => LET e == data.files[trace[Len(trace)].idx]
           recorded == extracted_files[Len(extracted_files)]
       IN  /\ Resolve(recorded) = Resolve(Destination(e))
           /\ Resolve(recorded) \in DOMAIN fs.files
           /\ fs.files[Resolve(recorded)] = e.content

\* C10: every call of extract_file either appends one path or appends one
\* entry-failure message; the success counter equals the number of paths
\* appended, and after the loop successes plus failures is the number of
\* entries.
C10_Accounting ==
    constructed
    => /\ success_count = Len(extracted_files)
       /\ Len(EntryOps) = Len(extracted_files) + Len(EntryFailures)
       /\ pc \in {"package", "env", "readme"} =>
             Len(extracted_files) + Len(EntryFailures) = NumFiles

====
